---- MODULE Spec2Model ----
(***************************************************************************)
(* Invoice ledger query API (business/views.py, business/serializers.py,   *)
(* business/models.py): the record store, the shared cache, and the        *)
(* requests of InvoiceViewSet, each request a short sequence of steps      *)
(* (cache get, record-store query, cache set; record-store write, cache    *)
(* clear) that interleave with those of the other clients.                 *)
(***************************************************************************)
EXTENDS Integers, Sequences, FiniteSets, TLC

VARIABLES
    persons,        \* Person table: id -> [name, role]
    invoices,       \* Invoice table: id -> [person, invoice_type, amount, date, is_paid]
    items,          \* InvoiceItem rows by invoice: id -> sequence of item names
    cache,          \* the django cache: key -> [data, timeout, ...]
    reqs,           \* per client: the request in progress and its response
    filterMode,     \* what the installed Django does with Sum(..., filter=False)
    nReads,         \* read requests started so far
    nMuts,          \* mutating requests started so far
    lastDone,       \* history: highest start number of a mutation that has returned success
    lastCleared,    \* history: highest start number of a mutation whose clear succeeded
    evicted,        \* history: keys removed by a successful namespace delete
    lastMarked,     \* history: the person whose mark_all_paid was the latest write, or 0
    nextInvoiceId,  \* the Invoice AutoField's next value
    nextPersonId    \* the Person AutoField's next value

vars == <<persons, invoices, items, cache, reqs, filterMode, nReads, nMuts,
          lastDone, lastCleared, evicted, lastMarked, nextInvoiceId, nextPersonId>>

(***************************************************************************)
(* Bounds                                                                  *)
(***************************************************************************)
MaxReads == 2          \* read requests per behaviour
MaxMutations == 1      \* mutating requests per behaviour
MaxInvoiceId == 5      \* ids the Invoice AutoField hands out
MaxPersonId == 3       \* ids the Person AutoField hands out

Clients == {"c1", "c2"}

(***************************************************************************)
(* Python values                                                           *)
(***************************************************************************)
None == "None"
Truthy(s) == s # None /\ s # ""

Max(S) == CHOOSE x \in S : \A y \in S : y <= x

\* MONTH_NAMES
MONTH_NAMES == <<"January", "February", "March", "April", "May", "June",
                 "July", "August", "September", "October", "November", "December">>

\* a lookup that also takes a month number
MonthIndexOrNumber(month) ==
    IF \E i \in DOMAIN MONTH_NAMES : MONTH_NAMES[i] = month
    THEN CHOOSE i \in DOMAIN MONTH_NAMES : MONTH_NAMES[i] = month
    ELSE IF month \in {"1", "2", "3", "13"} THEN
         CASE month = "1" -> 1 [] month = "2" -> 2 [] month = "3" -> 3 [] month = "13" -> 13
    ELSE 0

\* MONTH_NAMES.index(month) + 1, or 0 where index raises ValueError
MonthIndex(month) ==
    IF \E i \in DOMAIN MONTH_NAMES : MONTH_NAMES[i] = month
    THEN CHOOSE i \in DOMAIN MONTH_NAMES : MONTH_NAMES[i] = month
    ELSE 0

\* int(s) for the strings that occur; a string outside the table raises ValueError
IntTable ==
    ("0" :> 0) @@ ("1" :> 1) @@ ("2" :> 2) @@ ("3" :> 3) @@ ("9" :> 9) @@
    ("-1" :> -1) @@
    ("10" :> 10) @@ ("13" :> 13) @@ ("1000" :> 1000) @@ ("1001" :> 1001) @@
    ("2023" :> 2023) @@ ("2024" :> 2024)
IsInt(s) == s \in DOMAIN IntTable
ToInt(s) == IntTable[s]

\* dates are <<year, month, day>>; DateField.to_python for the strings that occur,
\* any other string raises ValidationError
DateTable ==
    ("2024-03-01" :> <<2024, 3, 1>>) @@ ("2024-03-12" :> <<2024, 3, 12>>) @@
    ("2024-03-31" :> <<2024, 3, 31>>)
IsDate(s) == s \in DOMAIN DateTable
DateLE(a, b) ==
    \/ a[1] < b[1]
    \/ a[1] = b[1] /\ a[2] < b[2]
    \/ a[1] = b[1] /\ a[2] = b[2] /\ a[3] <= b[3]

\* str.strip() for the strings that occur
Strip(s) == IF s = " ac " THEN "ac" ELSE IF s = " " THEN "" ELSE s

\* name__icontains: case-insensitive substring, for the names and needles that occur
IContains(name, needle) ==
    \/ needle = ""
    \/ needle = "ac" /\ name = "Acme"
    \/ needle = "b" /\ name \in {"Bolt"}
    \/ needle = "o" /\ name \in {"Bolt", "Orion"}
    \/ needle = name

(***************************************************************************)
(* Query parameters: the query string is a sequence of <<name, value>>.    *)
(***************************************************************************)
\* QueryDict.dict(): the last value of each name
Dict(qp) ==
    [k \in {qp[i][1] : i \in DOMAIN qp} |->
        qp[Max({i \in DOMAIN qp : qp[i][1] = k})][2]]

\* dict.get(k) / dict.get(k, default)
Get(d, k) == IF k \in DOMAIN d THEN d[k] ELSE None
GetOr(d, k, default) == IF k \in DOMAIN d THEN d[k] ELSE default

\* sorted(filters.items()): the items in ascending order of their names
ParamOrder == <<"_", "date_from", "date_to", "is_paid", "month", "person_id",
                "search", "skip", "take", "utm", "year">>
SortedItems(d) ==
    LET ks == SelectSeq(ParamOrder, LAMBDA k : k \in DOMAIN d)
    IN  [i \in DOMAIN ks |-> <<ks[i], d[ks[i]]>>]

(***************************************************************************)
(* Cache keys                                                              *)
(***************************************************************************)
Namespace == "rksuppliers:invoice"

\* hashlib.md5(raw).hexdigest(), taken to be injective on the raw strings
Md5(raw) == raw

\* a key that digests the prefix alone
get_cache_key_of_prefix(prefix, arg) == <<Namespace, prefix, Md5(<<prefix, <<>>>>)>>

\* get_cache_key(prefix, arg): "rksuppliers:invoice:{prefix}:{md5(prefix + str(args))}"
get_cache_key(prefix, arg) == <<Namespace, prefix, Md5(<<prefix, arg>>)>>

\* a narrower glob, "rksuppliers:invoice:list:*"
MatchesListOnly(k, ns) == k[1] = ns /\ k[2] = "list"

\* keys matching the glob "rksuppliers:invoice:*"
MatchesPattern(k, ns) == k[1] = ns

(***************************************************************************)
(* Querysets: a set of invoice ids, ordered on evaluation.                 *)
(***************************************************************************)
RECURSIVE OrderById(_)
OrderById(S) ==
    IF S = {} THEN <<>>
    ELSE LET m == CHOOSE x \in S : \A y \in S : x <= y
         IN  <<m>> \o OrderById(S \ {m})

\* order_by('-date'); rows of one date come in id order
RECURSIVE OrderByDateDesc(_)
OrderByDateDesc(S) ==
    IF S = {} THEN <<>>
    ELSE LET m == CHOOSE x \in S : \A y \in S :
                      \/ x = y
                      \/ ~DateLE(invoices[x].date, invoices[y].date)
                      \/ invoices[x].date = invoices[y].date /\ x < y
         IN  <<m>> \o OrderByDateDesc(S \ {m})

Min2(a, b) == IF a < b THEN a ELSE b

\* seq[a:b]
Slice(seq, a, b) == SubSeq(seq, a + 1, Min2(b, Len(seq)))

DefaultTake == 10

\* skip and take as paginate_queryset settles them
PageWindow(q) ==
    LET s  == GetOr(q, "skip", "0")
        t  == GetOr(q, "take", "10")
        ok == IsInt(s) /\ IsInt(t) /\ ToInt(s) >= 0 /\ ToInt(t) >= 1
    IN  [skip |-> IF ok THEN ToInt(s) ELSE 0,
         take |-> IF ok THEN ToInt(t) ELSE DefaultTake]

\* paginate_queryset(queryset, request): queryset[skip:skip + take]
paginate_queryset(rows, q) ==
    LET w == PageWindow(q) IN Slice(rows, w.skip, w.skip + w.take)

\* InvoiceSerializer(...).data of one invoice
Serialize(i) ==
    [id           |-> i,
     person       |-> [id   |-> invoices[i].person,
                       name |-> persons[invoices[i].person].name,
                       role |-> persons[invoices[i].person].role],
     invoice_type |-> invoices[i].invoice_type,
     amount       |-> invoices[i].amount,
     date         |-> invoices[i].date,
     is_paid      |-> invoices[i].is_paid,
     items        |-> items[i]]

SerializeMany(rows) == [n \in DOMAIN rows |-> Serialize(rows[n])]

(***************************************************************************)
(* Aggregates                                                              *)
(***************************************************************************)
RECURSIVE SumAmount(_)
SumAmount(S) ==
    IF S = {} THEN 0
    ELSE LET i == CHOOSE x \in S : TRUE
         IN  invoices[i].amount + SumAmount(S \ {i})

Null == [null |-> TRUE, v |-> 0]
Val(n) == [null |-> FALSE, v |-> n]

\* SQL SUM(amount): NULL over no rows
SqlSum(S) == IF S = {} THEN Null ELSE Val(SumAmount(S))

\* F('field') == value, evaluated by Python when the view runs: F.__eq__ compares
\* two expressions for identity and a plain value is no F expression
F_eq(field, value) == FALSE

\* Sum('amount', filter=cond) where cond is a Python bool: the aggregate either
\* drops a falsy filter or applies it as a constant condition
SumFilter(S, cond) ==
    IF filterMode = "dropped" /\ ~cond THEN SqlSum(S)
    ELSE SqlSum({i \in S : cond})

\* the sum as the aggregate gives it, NULL shown as -1
NullAsIs(x) == IF x.null THEN -1 ELSE x.v

\* float(x or 0)
OrZero(x) == IF x.null THEN 0 ELSE x.v

(***************************************************************************)
(* The read views, computed from the record store                          *)
(***************************************************************************)
\* month / year / search, as purchase, sell and dashboard apply them
MonthYearSearch(i, f) ==
    LET month  == Get(f, "month")
        year   == Get(f, "year")
        search == Strip(GetOr(f, "search", ""))
    IN  /\ IF Truthy(month) /\ month # "All" /\ MonthIndex(month) # 0
           THEN invoices[i].date[2] = MonthIndex(month) ELSE TRUE
        /\ IF Truthy(year) /\ IsInt(year)
           THEN invoices[i].date[1] = ToInt(year) ELSE TRUE
        /\ IF search # ""
           THEN IContains(persons[invoices[i].person].name, search) ELSE TRUE

\* person_id / date_from / date_to / is_paid, as purchase and sell apply them
ScopedOnly(i, f) ==
    LET pid   == Get(f, "person_id")
        dfrom == Get(f, "date_from")
        dto   == Get(f, "date_to")
        paid  == Get(f, "is_paid")
    IN  /\ IF Truthy(pid) THEN invoices[i].person = ToInt(pid) ELSE TRUE
        /\ IF Truthy(dfrom) THEN DateLE(DateTable[dfrom], invoices[i].date) ELSE TRUE
        /\ IF Truthy(dto) THEN DateLE(invoices[i].date, DateTable[dto]) ELSE TRUE
        /\ IF paid \in {"true", "1"} THEN invoices[i].is_paid
           ELSE IF paid \in {"false", "0"} THEN ~invoices[i].is_paid ELSE TRUE

\* qs.filter(person_id=...), qs.filter(date__gte=...), qs.filter(date__lte=...)
\* raise on a value the field cannot take; nothing in the view catches it
FilterRaises(f) ==
    \/ Truthy(Get(f, "person_id")) /\ ~IsInt(Get(f, "person_id"))
    \/ Truthy(Get(f, "date_from")) /\ ~IsDate(Get(f, "date_from"))
    \/ Truthy(Get(f, "date_to")) /\ ~IsDate(Get(f, "date_to"))

\* the queryset of purchase (type "purchase") and sell (type "sale")
ScopedQueryset(type, f) ==
    {i \in DOMAIN invoices :
        /\ invoices[i].invoice_type = type
        /\ MonthYearSearch(i, f)
        /\ ScopedOnly(i, f)}

NoData == [none |-> TRUE]
Response(status, data) == [status |-> status, data |-> data]

\* list: filter_queryset(get_queryset()) with no filter backend on the viewset
ListQueryset == DOMAIN invoices

ListData(q) ==
    LET qs == ListQueryset
    IN  Response(200,
          [total_purchase |-> OrZero(SumFilter(qs, F_eq("invoice_type", "purchase"))),
           total_sell     |-> OrZero(SumFilter(qs, F_eq("invoice_type", "sale"))),
           results        |-> SerializeMany(paginate_queryset(OrderById(qs), q))])

\* the sums and the count taken over the page instead of the filtered set
ScopedDataOverPage(type, q) ==
    LET f    == Dict(q)
        qs   == ScopedQueryset(type, f)
        page == paginate_queryset(OrderByDateDesc(qs), f)
        ids  == {page[n] : n \in DOMAIN page}
    IN  IF FilterRaises(f) THEN Response(500, NoData)
        ELSE Response(200,
          [total_amount    |-> OrZero(SqlSum(ids)),
           total_pending   |-> OrZero(SumFilter(ids, F_eq("is_paid", FALSE))),
           count           |-> Cardinality(ids),
           filters_applied |-> [month  |-> Get(f, "month"),
                                year   |-> Get(f, "year"),
                                search |-> Strip(GetOr(f, "search", ""))],
           results         |-> SerializeMany(page)])

\* purchase / sell
ScopedData(type, q) ==
    LET f  == Dict(q)
        qs == ScopedQueryset(type, f)
    IN  IF FilterRaises(f) THEN Response(500, NoData)
        ELSE Response(200,
          [total_amount    |-> OrZero(SqlSum(qs)),
           total_pending   |-> OrZero(SumFilter(qs, F_eq("is_paid", FALSE))),
           count           |-> Cardinality(qs),
           filters_applied |-> [month  |-> Get(f, "month"),
                                year   |-> Get(f, "year"),
                                search |-> Strip(GetOr(f, "search", ""))],
           results         |-> SerializeMany(
                                 paginate_queryset(OrderByDateDesc(qs), Dict(q)))])

Recent == 5

PendingRow(i, type) ==
    [person__name  |-> persons[invoices[i].person].name,
     invoice_count |-> 1,
     total_amount  |-> invoices[i].amount,
     invoice_type  |-> type,
     role          |-> persons[invoices[i].person].role]

PendingRows(qs, type) ==
    LET rows == Slice(OrderByDateDesc(
                   {i \in qs : invoices[i].invoice_type = type /\ ~invoices[i].is_paid}),
                   0, Recent)
    IN  [n \in DOMAIN rows |-> PendingRow(rows[n], type)]

RecentRows(qs, type) ==
    SerializeMany(Slice(OrderByDateDesc(
        {i \in qs : invoices[i].invoice_type = type}), 0, Recent))

DashboardData(q) ==
    LET f  == Dict(q)
        qs == {i \in DOMAIN invoices : MonthYearSearch(i, f)}
    IN  Response(200,
          [total_purchase   |-> OrZero(SumFilter(qs, F_eq("invoice_type", "purchase"))),
           total_sales      |-> OrZero(SumFilter(qs, F_eq("invoice_type", "sale"))),
           recent_purchases |-> RecentRows(qs, "purchase"),
           recent_sales     |-> RecentRows(qs, "sale"),
           pending          |-> PendingRows(qs, "purchase") \o PendingRows(qs, "sale")])

\* retrieve: get_object answers 404 for a pk that names no invoice
RetrieveData(pk) ==
    IF IsInt(pk) /\ ToInt(pk) \in DOMAIN invoices
    THEN Response(200, Serialize(ToInt(pk)))
    ELSE Response(404, NoData)

\* person_names: Person.objects.values_list('name', flat=True)
PersonNamesData ==
    LET ids == OrderById(DOMAIN persons)
    IN  Response(200, [person_names |-> [n \in DOMAIN ids |-> persons[ids[n]].name]])

ReadOps == {"list", "purchase", "sell", "dashboard", "retrieve", "person_names"}

\* what the view computes on a cache miss
ViewData(op, q, pk) ==
    CASE op = "list"         -> ListData(Dict(q))
      [] op = "purchase"     -> ScopedData("purchase", q)
      [] op = "sell"         -> ScopedData("sale", q)
      [] op = "dashboard"    -> DashboardData(q)
      [] op = "retrieve"     -> RetrieveData(pk)
      [] op = "person_names" -> PersonNamesData

\* keys derived from the items in the order the query string gives them
ViewKeyInsertionOrder(op, q, pk) ==
    CASE op \in {"list", "purchase", "sell", "dashboard"}
                             -> get_cache_key(op, q)
      [] op = "retrieve"     -> get_cache_key(op, pk)
      [] op = "person_names" -> get_cache_key(op, <<>>)

\* the key each view derives
ViewKey(op, q, pk) ==
    CASE op \in {"list", "purchase", "sell", "dashboard"}
                             -> get_cache_key(op, SortedItems(Dict(q)))
      [] op = "retrieve"     -> get_cache_key(op, pk)
      [] op = "person_names" -> get_cache_key(op, <<>>)

\* cache.set(key, data, None): an entry that never expires
NoTimeout(op) == -1

\* the timeout each view passes to cache.set
ViewTimeout(op) == IF op = "person_names" THEN 600 ELSE 300

(***************************************************************************)
(* Requests                                                                *)
(***************************************************************************)
NoInst == [id |-> 0, person |-> 0, invoice_type |-> "", amount |-> 0,
           date |-> <<0, 0, 0>>, is_paid |-> FALSE, pname |-> "", prole |-> ""]

NoPerson == [name |-> None, role |-> None]
NoFields == [invoice_type |-> "", amount |-> 0, date |-> <<0, 0, 0>>, is_paid |-> FALSE]
NoItems  == [given |-> FALSE, rows |-> <<>>]

\* a request body: person_data (a missing entry is None), items_data (absent or
\* a list of item names), and the invoice fields it carries (has)
NoBody == [person_data |-> NoPerson, items_data |-> NoItems, has |-> {}, vals |-> NoFields]

Idle ==
    [pc |-> "idle", op |-> "none", q |-> <<>>, pk |-> "", body |-> NoBody,
     partial |-> FALSE, key |-> <<>>, status |-> 0, data |-> NoData, hit |-> FALSE,
     seq |-> 0, trace |-> <<>>, inst |-> NoInst, clearOk |-> FALSE,
     staleHit |-> FALSE, preClearHit |-> FALSE, wasEvicted |-> FALSE, qMarked |-> 0,
     afterMark |-> 0, sawDone |-> 0]

Free(c) == reqs[c].pc \in {"idle", "done"}

\* history: the person whose mark_all_paid has returned and is still the latest
\* write with no other mutation under way, or 0
SettledMark ==
    IF \A c \in Clients : reqs[c].seq # 0 => reqs[c].pc = "done"
    THEN lastMarked ELSE 0

Finish(c, status, data) ==
    [reqs[c] EXCEPT !.pc = "done", !.status = status, !.data = data]

DbVars == <<persons, invoices, items, nextInvoiceId, nextPersonId, lastMarked>>
HistVars == <<lastDone, lastCleared, evicted>>

(***************************************************************************)
(* Read requests: list, purchase, sell, dashboard, retrieve, person_names  *)
(***************************************************************************)
StartRead(c, op, q, pk) ==
    /\ Free(c)
    /\ nReads < MaxReads
    /\ nReads' = nReads + 1
    /\ reqs' = [reqs EXCEPT ![c] =
                  [Idle EXCEPT !.pc = "get", !.op = op, !.q = q, !.pk = pk,
                               !.key = ViewKey(op, q, pk),
                               !.afterMark = SettledMark,
                               !.sawDone = lastDone]]
    /\ UNCHANGED <<DbVars, HistVars, cache, filterMode, nMuts>>

\* a hit that checks the entry against the store and answers with the view's data
CacheGetHitRevalidates(c) ==
    /\ reqs[c].pc = "get"
    /\ reqs[c].key \in DOMAIN cache
    /\ reqs' = [reqs EXCEPT ![c] =
                  [Finish(c, 200, ViewData(reqs[c].op, reqs[c].q, reqs[c].pk).data)
                     EXCEPT !.hit = TRUE]]
    /\ UNCHANGED <<DbVars, HistVars, cache, filterMode, nReads, nMuts>>

\* cached = cache.get(cache_key); if cached: return Response(cached)
CacheGetHit(c) ==
    /\ reqs[c].pc = "get"
    /\ reqs[c].key \in DOMAIN cache
    /\ reqs' = [reqs EXCEPT ![c] =
                  [Finish(c, 200, cache[reqs[c].key].data) EXCEPT
                      !.hit = TRUE,
                      !.staleHit = cache[reqs[c].key].stamp < reqs[c].sawDone,
                      !.preClearHit = cache[reqs[c].key].stamp < lastCleared]]
    /\ UNCHANGED <<DbVars, HistVars, cache, filterMode, nReads, nMuts>>

CacheGetMiss(c) ==
    /\ reqs[c].pc = "get"
    /\ reqs[c].key \notin DOMAIN cache
    /\ reqs' = [reqs EXCEPT ![c].pc = "query",
                            ![c].wasEvicted = reqs[c].key \in evicted]
    /\ UNCHANGED <<DbVars, HistVars, cache, filterMode, nReads, nMuts>>

\* the backend raises in cache.get: nothing in the view catches it
CacheGetFail(c) ==
    /\ reqs[c].pc = "get"
    /\ reqs' = [reqs EXCEPT ![c] = Finish(c, 500, NoData)]
    /\ UNCHANGED <<DbVars, HistVars, cache, filterMode, nReads, nMuts>>

\* the miss path up to cache.set: the view's queries and serialization
Query(c) ==
    /\ reqs[c].pc = "query"
    /\ LET r == ViewData(reqs[c].op, reqs[c].q, reqs[c].pk)
       IN  reqs' = [reqs EXCEPT ![c] =
                      IF r.status = 200
                      THEN [reqs[c] EXCEPT !.pc = "set", !.data = r.data,
                                           !.qMarked = lastMarked]
                      ELSE Finish(c, r.status, NoData)]
    /\ UNCHANGED <<DbVars, HistVars, cache, filterMode, nReads, nMuts>>

Entry(c) ==
    [data |-> reqs[c].data, timeout |-> ViewTimeout(reqs[c].op), stamp |-> nMuts]

\* cache.set(cache_key, data, timeout); return Response(data)
CacheSet(c) ==
    /\ reqs[c].pc = "set"
    /\ cache' = (reqs[c].key :> Entry(c)) @@ cache
    /\ reqs' = [reqs EXCEPT ![c] = Finish(c, 200, reqs[c].data)]
    /\ UNCHANGED <<DbVars, HistVars, filterMode, nReads, nMuts>>

\* the backend raises in cache.set: nothing in the view catches it
CacheSetFail(c) ==
    /\ reqs[c].pc = "set"
    /\ reqs' = [reqs EXCEPT ![c] = Finish(c, 500, NoData)]
    /\ UNCHANGED <<DbVars, HistVars, cache, filterMode, nReads, nMuts>>

\* the backend drops an entry whose timeout has run out
Expire(k) ==
    /\ k \in DOMAIN cache
    /\ cache[k].timeout \in Nat
    /\ cache' = [x \in DOMAIN cache \ {k} |-> cache[x]]
    /\ UNCHANGED <<DbVars, HistVars, reqs, filterMode, nReads, nMuts>>

(***************************************************************************)
(* Mutating requests: create, update, partial update, destroy,             *)
(* mark_all_paid                                                           *)
(***************************************************************************)
MutOps == {"create", "update", "destroy", "mark_all_paid"}

StartMutation(c, op, pk, body, partial) ==
    /\ Free(c)
    /\ nMuts < MaxMutations
    /\ nMuts' = nMuts + 1
    /\ reqs' = [reqs EXCEPT ![c] =
                  [Idle EXCEPT !.pc = IF op = "create" THEN "save" ELSE "lookup",
                               !.op = op, !.pk = pk, !.body = body,
                               !.partial = partial, !.seq = nMuts + 1]]
    /\ UNCHANGED <<DbVars, HistVars, cache, filterMode, nReads>>

\* the model fields a full (non-partial) body must carry
Required == {"invoice_type", "amount", "date"}

BadItem == "<bad>"
ItemsRaise(rows) == \E n \in DOMAIN rows : rows[n] = BadItem

\* a field of the request body, or the given default
Field(body, name, default) == IF name \in body.has THEN body.vals[name] ELSE default

\* a handler that returns straight after its write
WrittenNoClear(c, status, data) ==
    [reqs[c] EXCEPT !.pc = "done", !.status = status, !.data = data,
                    !.trace = Append(reqs[c].trace, "write")]

\* the step from the write to the cache clear
Written(c, status, data) ==
    [reqs[c] EXCEPT !.pc = "clear", !.status = status, !.data = data,
                    !.trace = Append(reqs[c].trace, "write")]

\* a serializer without the transaction: what was written before the exception
\* stays, the invoice of a create whose item insert fails and the emptied item
\* list of an update whose item insert fails
WritesKept(c) ==
    LET body    == reqs[c].body
        pd      == body.person_data
        matches == {p \in DOMAIN persons :
                       persons[p].name = pd.name /\ persons[p].role = pd.role}
        id      == reqs[c].inst.id
    IN  IF reqs[c].op = "create" /\ Cardinality(matches) = 1
           /\ nextInvoiceId <= MaxInvoiceId
        THEN /\ invoices' = (nextInvoiceId :>
                                [person       |-> CHOOSE p \in matches : TRUE,
                                 invoice_type |-> body.vals.invoice_type,
                                 amount       |-> body.vals.amount,
                                 date         |-> body.vals.date,
                                 is_paid      |-> Field(body, "is_paid", FALSE)])
                             @@ invoices
             /\ items' = (nextInvoiceId :> <<>>) @@ items
             /\ nextInvoiceId' = nextInvoiceId + 1
             /\ UNCHANGED <<persons, nextPersonId, lastMarked>>
        ELSE IF reqs[c].op = "update" /\ id \in DOMAIN items
        THEN /\ items' = [items EXCEPT ![id] = <<>>]
             /\ UNCHANGED <<persons, invoices, nextInvoiceId, nextPersonId, lastMarked>>
        ELSE UNCHANGED DbVars

\* @transaction.atomic: an exception inside create / update rolls back every
\* row the serializer has written
RolledBack(c) == UNCHANGED DbVars

\* create: serializer.is_valid(raise_exception=True); serializer.save(), which
\* runs InvoiceSerializer.create in one transaction
CreateSave(c) ==
    LET body    == reqs[c].body
        pd      == body.person_data
        rows    == body.items_data.rows
        matches == {p \in DOMAIN persons :
                       persons[p].name = pd.name /\ persons[p].role = pd.role}
        pid     == IF matches = {} THEN nextPersonId ELSE CHOOSE p \in matches : TRUE
        id      == nextInvoiceId
        row     == [person       |-> pid,
                    invoice_type |-> body.vals.invoice_type,
                    amount       |-> body.vals.amount,
                    date         |-> body.vals.date,
                    is_paid      |-> Field(body, "is_paid", FALSE)]
    IN
    /\ reqs[c].pc = "save"
    /\ reqs[c].op = "create"
    /\ IF ~(Required \subseteq body.has) \/ pd = NoPerson \/ rows = <<>>
       THEN \* ValidationError
            /\ reqs' = [reqs EXCEPT ![c] = Finish(c, 400, NoData)]
            /\ UNCHANGED DbVars
       ELSE IF pd.name = None \/ pd.role = None \/ Cardinality(matches) > 1
               \/ ItemsRaise(rows)
       THEN \* KeyError, MultipleObjectsReturned, or a failing item insert:
            \* the transaction rolls back
            /\ reqs' = [reqs EXCEPT ![c] = Finish(c, 500, NoData)]
            /\ RolledBack(c)
       ELSE /\ nextInvoiceId <= MaxInvoiceId
            /\ matches = {} => nextPersonId <= MaxPersonId
            /\ persons' = IF matches = {}
                          THEN (pid :> [name |-> pd.name, role |-> pd.role]) @@ persons
                          ELSE persons
            /\ nextPersonId' = IF matches = {} THEN nextPersonId + 1 ELSE nextPersonId
            /\ invoices' = (id :> row) @@ invoices
            /\ items' = (id :> rows) @@ items
            /\ nextInvoiceId' = nextInvoiceId + 1
            /\ lastMarked' = 0
            /\ reqs' = [reqs EXCEPT ![c] =
                 Written(c, 201,
                   [id |-> id,
                    person |-> [id |-> pid, name |-> pd.name, role |-> pd.role],
                    invoice_type |-> row.invoice_type, amount |-> row.amount,
                    date |-> row.date, is_paid |-> row.is_paid, items |-> rows])]
    /\ UNCHANGED <<HistVars, cache, filterMode, nReads, nMuts>>

\* update / destroy: instance = self.get_object(), the row as the viewset's
\* queryset loads it (select_related('person'))
GetObject(c) ==
    LET pk == reqs[c].pk IN
    /\ reqs[c].pc = "lookup"
    /\ reqs[c].op \in {"update", "destroy"}
    /\ reqs' = [reqs EXCEPT ![c] =
                  IF IsInt(pk) /\ ToInt(pk) \in DOMAIN invoices
                  THEN LET i == ToInt(pk) IN
                       [reqs[c] EXCEPT !.pc = "save",
                          !.inst = [id |-> i, person |-> invoices[i].person,
                                    invoice_type |-> invoices[i].invoice_type,
                                    amount |-> invoices[i].amount,
                                    date |-> invoices[i].date,
                                    is_paid |-> invoices[i].is_paid,
                                    pname |-> persons[invoices[i].person].name,
                                    prole |-> persons[invoices[i].person].role]]
                  ELSE Finish(c, 404, NoData)]
    /\ UNCHANGED <<DbVars, HistVars, cache, filterMode, nReads, nMuts>>

\* update: serializer.is_valid(raise_exception=True); serializer.save(), which
\* runs InvoiceSerializer.update in one transaction on the loaded instance
UpdateSave(c) ==
    LET body == reqs[c].body
        pd   == body.person_data
        inst == reqs[c].inst
        id   == inst.id
        prow == [name |-> IF pd.name = None THEN inst.pname ELSE pd.name,
                 role |-> IF pd.role = None THEN inst.prole ELSE pd.role]
        pnew == IF pd = NoPerson THEN [name |-> inst.pname, role |-> inst.prole]
                ELSE prow
        row  == [person       |-> inst.person,
                 invoice_type |-> Field(body, "invoice_type", inst.invoice_type),
                 amount       |-> Field(body, "amount", inst.amount),
                 date         |-> Field(body, "date", inst.date),
                 is_paid      |-> Field(body, "is_paid", inst.is_paid)]
        rows == IF body.items_data.given THEN body.items_data.rows
                ELSE IF id \in DOMAIN items THEN items[id] ELSE <<>>
    IN
    /\ reqs[c].pc = "save"
    /\ reqs[c].op = "update"
    /\ IF ~reqs[c].partial /\ ~(Required \subseteq body.has)
       THEN \* ValidationError
            /\ reqs' = [reqs EXCEPT ![c] = Finish(c, 400, NoData)]
            /\ UNCHANGED DbVars
       ELSE IF id \notin DOMAIN invoices
               \/ (body.items_data.given /\ ItemsRaise(body.items_data.rows))
       THEN \* the row is gone (instance.save() updates no row) or an item
            \* insert fails: the transaction rolls back
            /\ reqs' = [reqs EXCEPT ![c] = Finish(c, 500, NoData)]
            /\ RolledBack(c)
       ELSE /\ persons' = IF pd = NoPerson THEN persons
                          ELSE [persons EXCEPT ![inst.person] = prow]
            /\ invoices' = [invoices EXCEPT ![id] = row]
            /\ items' = [items EXCEPT ![id] = rows]
            /\ lastMarked' = 0
            /\ UNCHANGED <<nextInvoiceId, nextPersonId>>
            /\ reqs' = [reqs EXCEPT ![c] =
                 Written(c, 200,
                   [id |-> id,
                    person |-> [id |-> inst.person, name |-> pnew.name,
                                role |-> pnew.role],
                    invoice_type |-> row.invoice_type, amount |-> row.amount,
                    date |-> row.date, is_paid |-> row.is_paid, items |-> rows])]
    /\ UNCHANGED <<HistVars, cache, filterMode, nReads, nMuts>>

\* destroy: instance.delete(), which takes the invoice's items with it
DestroyDelete(c) ==
    LET id == reqs[c].inst.id IN
    /\ reqs[c].pc = "save"
    /\ reqs[c].op = "destroy"
    /\ invoices' = [i \in DOMAIN invoices \ {id} |-> invoices[i]]
    /\ items' = [i \in DOMAIN items \ {id} |-> items[i]]
    /\ lastMarked' = 0
    /\ UNCHANGED <<persons, nextInvoiceId, nextPersonId>>
    /\ reqs' = [reqs EXCEPT ![c] = Written(c, 204, NoData)]
    /\ UNCHANGED <<HistVars, cache, filterMode, nReads, nMuts>>

\* mark_all_paid: person = Person.objects.get(id=person_id)
PersonGet(c) ==
    LET pk == reqs[c].pk IN
    /\ reqs[c].pc = "lookup"
    /\ reqs[c].op = "mark_all_paid"
    /\ reqs' = [reqs EXCEPT ![c] =
                  IF ~IsInt(pk) THEN Finish(c, 500, NoData)
                  ELSE IF ToInt(pk) \notin DOMAIN persons THEN Finish(c, 404, NoData)
                  ELSE [reqs[c] EXCEPT !.pc = "save", !.inst.person = ToInt(pk)]]
    /\ UNCHANGED <<DbVars, HistVars, cache, filterMode, nReads, nMuts>>

\* every unpaid invoice, whoever it belongs to
UnpaidOfAnyone(p) == {i \in DOMAIN invoices : ~invoices[i].is_paid}

\* the invoices Invoice.objects.filter(person=person, is_paid=False) selects
UnpaidOf(p) == {i \in DOMAIN invoices : invoices[i].person = p /\ ~invoices[i].is_paid}

\* mark_all_paid: updated = Invoice.objects.filter(...).update(is_paid=True)
MarkUpdate(c) ==
    LET p == reqs[c].inst.person IN
    /\ reqs[c].pc = "save"
    /\ reqs[c].op = "mark_all_paid"
    /\ invoices' = [i \in DOMAIN invoices |->
                      IF i \in UnpaidOf(p)
                      THEN [invoices[i] EXCEPT !.is_paid = TRUE]
                      ELSE invoices[i]]
    /\ lastMarked' = p
    /\ UNCHANGED <<persons, items, nextInvoiceId, nextPersonId>>
    /\ reqs' = [reqs EXCEPT ![c] =
                  Written(c, 200, [updated |-> Cardinality(UnpaidOf(p))])]
    /\ UNCHANGED <<HistVars, cache, filterMode, nReads, nMuts>>

\* a delete that spares the person_names entry
delete_pattern_but_names(ns) ==
    [k \in {x \in DOMAIN cache : ~MatchesPattern(x, ns) \/ x[2] = "person_names"}
        |-> cache[k]]

\* cache.delete_pattern("rksuppliers:invoice:*")
delete_pattern(ns) == [k \in {x \in DOMAIN cache : ~MatchesPattern(x, ns)} |-> cache[k]]

\* the response the view returns once clear_cache is through
Responded(c, ok) ==
    [reqs[c] EXCEPT !.pc = "done", !.clearOk = ok,
                    !.trace = Append(reqs[c].trace, "clear:" \o Namespace \o ":*")]

\* clear_cache() with the delete going through
ClearOk(c) ==
    /\ reqs[c].pc = "clear"
    /\ cache' = delete_pattern(Namespace)
    /\ evicted' = evicted \cup (DOMAIN cache \ DOMAIN cache')
    /\ lastCleared' = Max({lastCleared, reqs[c].seq})
    /\ lastDone' = Max({lastDone, reqs[c].seq})
    /\ reqs' = [reqs EXCEPT ![c] = Responded(c, TRUE)]
    /\ UNCHANGED <<DbVars, filterMode, nReads, nMuts>>

\* clear_cache() without its except clause: the error reaches the caller
ClearFailRaises(c) ==
    /\ reqs[c].pc = "clear"
    /\ lastDone' = lastDone
    /\ reqs' = [reqs EXCEPT ![c] = [Responded(c, FALSE) EXCEPT !.status = 500,
                                                               !.data = NoData]]
    /\ UNCHANGED <<DbVars, cache, evicted, lastCleared, filterMode, nReads, nMuts>>

\* clear_cache() with the delete raising: the except clause prints and goes on
ClearFail(c) ==
    /\ reqs[c].pc = "clear"
    /\ lastDone' = Max({lastDone, reqs[c].seq})
    /\ reqs' = [reqs EXCEPT ![c] = Responded(c, FALSE)]
    /\ UNCHANGED <<DbVars, cache, evicted, lastCleared, filterMode, nReads, nMuts>>

(***************************************************************************)
(* Initial states: a record store that earlier requests have filled, an    *)
(* empty cache, no request in progress.                                    *)
(***************************************************************************)
SeedPersons ==
    (1 :> [name |-> "Acme", role |-> "vendor"]) @@
    (2 :> [name |-> "Bolt", role |-> "customer"])

Row(p, t, a, d, paid) ==
    [person |-> p, invoice_type |-> t, amount |-> a, date |-> d, is_paid |-> paid]

SeedInvoices ==
    <<Row(1, "purchase", 500, <<2024, 3, 10>>, FALSE),
      Row(2, "sale",     300, <<2024, 3, 15>>, TRUE),
      Row(1, "purchase", 300, <<2023, 4, 1>>,  FALSE),
      Row(2, "sale",     500, <<2024, 4, 2>>,  FALSE)>>

SeedItems == <<"nails">>

InitWith(ids) ==
    /\ persons = SeedPersons
    /\ invoices = [i \in ids |-> SeedInvoices[i]]
    /\ items = [i \in ids |-> SeedItems]
    /\ nextInvoiceId = Len(SeedInvoices) + 1
    /\ nextPersonId = 3
    /\ cache = <<>>
    /\ reqs = [c \in Clients |-> Idle]
    /\ filterMode \in {"dropped", "applied"}
    /\ nReads = 0
    /\ nMuts = 0
    /\ lastDone = 0
    /\ lastCleared = 0
    /\ evicted = {}
    /\ lastMarked = 0

\* a store holding the seed invoices
Init == InitWith(DOMAIN SeedInvoices)

\* a store holding any of the seed invoices
InitQuery == \E ids \in SUBSET DOMAIN SeedInvoices : InitWith(ids)

(***************************************************************************)
(* The requests the clients send                                           *)
(***************************************************************************)
ReadChoices ==
    {<<"list", <<>>, "">>, <<"purchase", <<>>, "">>, <<"sell", <<>>, "">>,
     <<"dashboard", <<>>, "">>, <<"retrieve", <<>>, "1">>,
     <<"person_names", <<>>, "">>}

Body(pd, rows, has, vals) ==
    [person_data |-> pd, items_data |-> rows, has |-> has, vals |-> vals]
GivenItems(rows) == [given |-> TRUE, rows |-> rows]
AllFields == {"invoice_type", "amount", "date", "is_paid"}

CreateBodies ==
    {Body([name |-> "Acme", role |-> "vendor"], GivenItems(<<"bolts">>), AllFields,
          [invoice_type |-> "purchase", amount |-> 300, date |-> <<2024, 3, 15>>,
           is_paid |-> FALSE]),
     Body([name |-> "Orion", role |-> "customer"], GivenItems(<<"bolts">>), Required,
          [invoice_type |-> "sale", amount |-> 500, date |-> <<2024, 3, 10>>,
           is_paid |-> FALSE]),
     Body(NoPerson, GivenItems(<<"bolts">>), AllFields,
          [invoice_type |-> "sale", amount |-> 300, date |-> <<2024, 3, 15>>,
           is_paid |-> FALSE]),
     Body([name |-> "Acme", role |-> "vendor"], GivenItems(<<BadItem>>), AllFields,
          [invoice_type |-> "purchase", amount |-> 300, date |-> <<2024, 3, 15>>,
           is_paid |-> FALSE])}

UpdateBodies ==
    {Body(NoPerson, NoItems, {"is_paid"},
          [NoFields EXCEPT !.is_paid = TRUE]),
     Body([name |-> "Bolt", role |-> None], GivenItems(<<>>), Required,
          [invoice_type |-> "sale", amount |-> 300, date |-> <<2024, 3, 15>>,
           is_paid |-> FALSE])}

MutChoices ==
    {<<"create", "", b, FALSE>> : b \in CreateBodies}
    \cup {<<"update", "1", b, partial>> : b \in UpdateBodies, partial \in BOOLEAN}
    \cup {<<"update", "9", NoBody, TRUE>>}
    \cup {<<"destroy", pk, NoBody, FALSE>> : pk \in {"1", "9"}}
    \cup {<<"mark_all_paid", pk, NoBody, FALSE>> : pk \in {"1", "2", "9", "x"}}

AllKeys == {ViewKey(r[1], r[2], r[3]) : r \in ReadChoices}

NextOver(reads, muts) ==
    \/ \E c \in Clients, r \in reads : StartRead(c, r[1], r[2], r[3])
    \/ \E c \in Clients : CacheGetHit(c)
    \/ \E c \in Clients : CacheGetMiss(c)
    \/ \E c \in Clients : CacheGetFail(c)
    \/ \E c \in Clients : Query(c)
    \/ \E c \in Clients : CacheSet(c)
    \/ \E c \in Clients : CacheSetFail(c)
    \/ \E k \in AllKeys : Expire(k)
    \/ \E c \in Clients, m \in muts : StartMutation(c, m[1], m[2], m[3], m[4])
    \/ \E c \in Clients : CreateSave(c)
    \/ \E c \in Clients : GetObject(c)
    \/ \E c \in Clients : UpdateSave(c)
    \/ \E c \in Clients : DestroyDelete(c)
    \/ \E c \in Clients : PersonGet(c)
    \/ \E c \in Clients : MarkUpdate(c)
    \/ \E c \in Clients : ClearOk(c)
    \/ \E c \in Clients : ClearFail(c)

Next == NextOver(ReadChoices, MutChoices)

Spec == Init /\ [][Next]_vars

(***************************************************************************)
(* The read views alone, on every seed store and a range of query strings  *)
(***************************************************************************)
QueryStrings ==
    {<<>>,
     <<<<"take", "1">>>>,
     <<<<"skip", "1">>>>,
     <<<<"skip", "1">>, <<"take", "1">>>>,
     <<<<"skip", "3">>, <<"take", "2">>>>,
     <<<<"take", "0">>>>,
     <<<<"skip", "-1">>, <<"take", "1">>>>,
     <<<<"skip", "x">>>>,
     <<<<"month", "March">>, <<"year", "2024">>>>,
     <<<<"month", "March">>, <<"year", "2024">>, <<"skip", "0">>, <<"take", "1">>>>,
     <<<<"is_paid", "false">>>>,
     <<<<"is_paid", "false">>, <<"take", "1">>>>,
     <<<<"is_paid", "1">>>>,
     <<<<"search", " ac ">>>>,
     <<<<"person_id", "2">>, <<"skip", "1">>>>,
     <<<<"person_id", "2">>>>}

QueryChoices ==
    {<<op, q, "">> : op \in {"list", "purchase", "sell", "dashboard"}, q \in QueryStrings}
    \cup {<<"retrieve", <<>>, pk>> : pk \in {"1", "9"}}
    \cup {<<"person_names", <<>>, "">>}

\* one read on an empty cache
NextQuery ==
    \/ \E r \in QueryChoices : cache = <<>> /\ StartRead("c1", r[1], r[2], r[3])
    \/ CacheGetMiss("c1")
    \/ Query("c1")
    \/ CacheSet("c1")

SpecQuery == InitQuery /\ [][NextQuery]_vars

(***************************************************************************)
(* Expiry under passing time: an entry with a timeout does not stay in the *)
(* cache for ever.  One request of each kind, on fewer keys.               *)
(***************************************************************************)
LiveReads == {<<"list", <<>>, "">>, <<"person_names", <<>>, "">>}

LiveMuts ==
    {<<"create", "", b, FALSE>> :
        b \in {x \in CreateBodies : x.person_data.name = "Orion"}}
    \cup {<<"update", "1", b, TRUE>> : b \in {x \in UpdateBodies : x.has = {"is_paid"}}}
    \cup {<<"destroy", "1", NoBody, FALSE>>, <<"mark_all_paid", "1", NoBody, FALSE>>}

NextLive == NextOver(LiveReads, LiveMuts)

SpecLive ==
    /\ Init
    /\ [][NextLive]_vars
    /\ \A k \in AllKeys : WF_vars(Expire(k))

(***************************************************************************)
(* Cache keys: one read on an empty cache, then a second read by another   *)
(* client, over query strings that differ in order, in one value, or in a  *)
(* parameter no view reads.                                                *)
(***************************************************************************)
KeyStrings ==
    {<<>>,
     <<<<"month", "March">>, <<"year", "2024">>>>,
     <<<<"year", "2024">>, <<"month", "March">>>>,
     <<<<"month", "April">>, <<"year", "2024">>>>,
     <<<<"month", "March">>, <<"year", "2023">>>>,
     <<<<"month", "March">>, <<"year", "2024">>, <<"utm", "x">>>>,
     <<<<"utm", "x">>>>,
     <<<<"utm", "y">>>>,
     <<<<"month", "13">>>>,
     <<<<"skip", "1">>, <<"take", "1">>>>,
     <<<<"take", "1">>, <<"skip", "1">>>>,
     <<<<"take", "2">>, <<"skip", "1">>>>,
     <<<<"is_paid", "false">>, <<"person_id", "1">>>>,
     <<<<"person_id", "1">>, <<"is_paid", "false">>>>,
     <<<<"person_id", "2">>, <<"is_paid", "false">>>>,
     <<<<"search", "ac">>>>,
     <<<<"search", "b">>>>,
     <<<<"date_from", "2024-03-01">>, <<"date_to", "2024-03-31">>>>,
     <<<<"date_to", "2024-03-31">>, <<"date_from", "2024-03-01">>>>,
     <<<<"date_from", "2024-03-12">>, <<"date_to", "2024-03-31">>>>,
     <<<<"date_from", "2024-03-01">>, <<"date_to", "2024-03-12">>>>}

KeyChoices ==
    {<<op, q, "">> : op \in {"list", "purchase", "sell", "dashboard"}, q \in KeyStrings}

NextKey ==
    \/ \E r \in KeyChoices : nReads = 0 /\ StartRead("c1", r[1], r[2], r[3])
    \/ \E r \in KeyChoices :
          /\ reqs["c1"].pc = "done" /\ reqs["c2"].pc = "idle"
          /\ StartRead("c2", r[1], r[2], r[3])
    \/ \E c \in Clients : CacheGetHit(c)
    \/ \E c \in Clients : CacheGetMiss(c)
    \/ \E c \in Clients : Query(c)
    \/ \E c \in Clients : CacheSet(c)

SpecKey == Init /\ [][NextKey]_vars

(***************************************************************************)
(* Filters: one read on an empty cache, on every seed store, over query    *)
(* strings with large page sizes, values that do not parse, and filters    *)
(* that select nothing.                                                    *)
(***************************************************************************)
FilterStrings ==
    {<<>>,
     <<<<"take", "1000">>>>,
     <<<<"take", "1001">>>>,
     <<<<"skip", "1">>, <<"take", "1001">>>>,
     <<<<"year", "2024">>>>,
     <<<<"year", "2023">>>>,
     <<<<"year", "20x4">>>>,
     <<<<"month", "March">>, <<"year", "20x4">>>>,
     <<<<"month", "March">>>>,
     <<<<"month", "13">>>>,
     <<<<"month", "13">>, <<"year", "2024">>>>,
     <<<<"month", "3">>>>,
     <<<<"month", "march">>>>,
     <<<<"month", "All">>>>,
     <<<<"year", "2024">>, <<"month", "13">>, <<"take", "1">>>>,
     <<<<"date_from", "2024-03-12">>>>,
     <<<<"date_from", "12/03/2024">>>>,
     <<<<"date_to", "2024-03-12">>>>,
     <<<<"date_to", "2024-02-30">>>>,
     <<<<"date_from", "2024-03-01">>, <<"date_to", "yesterday">>>>,
     <<<<"search", "zz">>>>,
     <<<<"is_paid", "true">>, <<"year", "2023">>>>,
     <<<<"is_paid", "maybe">>>>}

FilterChoices ==
    {<<op, q, "">> : op \in {"list", "purchase", "sell", "dashboard"},
                     q \in FilterStrings}

NextFilter ==
    \/ \E r \in FilterChoices : cache = <<>> /\ StartRead("c1", r[1], r[2], r[3])
    \/ CacheGetMiss("c1")
    \/ Query("c1")
    \/ CacheSet("c1")

SpecFilter == InitQuery /\ [][NextFilter]_vars

(***************************************************************************)
(* Persons: the creates and updates alone, with bodies that name a person  *)
(* the store holds, a new one, or another person's name and role.          *)
(***************************************************************************)
PersonBodies ==
    {Body([name |-> "Bolt", role |-> "customer"], NoItems, {}, NoFields),
     Body([name |-> "Acme", role |-> "vendor"], NoItems, {}, NoFields),
     Body([name |-> "Orion", role |-> None], NoItems, {"amount"},
          [NoFields EXCEPT !.amount = 300]),
     Body([name |-> None, role |-> "customer"], NoItems, {}, NoFields)}

PersonMuts ==
    {<<"create", "", b, FALSE>> : b \in CreateBodies}
    \cup {<<"update", pk, b, TRUE>> : pk \in {"1", "2", "9"}, b \in PersonBodies}
    \cup {<<"update", "1", b, FALSE>> : b \in UpdateBodies}

NextPersons ==
    \/ \E c \in Clients, m \in PersonMuts : StartMutation(c, m[1], m[2], m[3], m[4])
    \/ \E c \in Clients : CreateSave(c)
    \/ \E c \in Clients : GetObject(c)
    \/ \E c \in Clients : UpdateSave(c)
    \/ \E c \in Clients : ClearOk(c)
    \/ \E c \in Clients : ClearFail(c)

SpecPersons == Init /\ [][NextPersons]_vars

(***************************************************************************)
(* Failing mutations: bodies that fail validation or fail at an item, ids  *)
(* that name no row, next to mutations that go through, with reads that    *)
(* fill the cache.                                                         *)
(***************************************************************************)
FailingBodies ==
    {Body([name |-> "Orion", role |-> "customer"], GivenItems(<<"bolts", BadItem>>),
          Required,
          [invoice_type |-> "sale", amount |-> 300, date |-> <<2024, 3, 15>>,
           is_paid |-> FALSE]),
     Body([name |-> "Acme", role |-> "vendor"], GivenItems(<<"bolts">>), {"amount"},
          [NoFields EXCEPT !.amount = 300]),
     Body([name |-> "Acme", role |-> "vendor"], GivenItems(<<>>), Required,
          [invoice_type |-> "purchase", amount |-> 300, date |-> <<2024, 3, 15>>,
           is_paid |-> FALSE])}

FailMuts ==
    {<<"create", "", b, FALSE>> : b \in CreateBodies \cup FailingBodies}
    \cup {<<"update", "1", b, partial>> : b \in FailingBodies, partial \in BOOLEAN}
    \cup {<<"update", "1", b, TRUE>> : b \in UpdateBodies}
    \cup {<<"update", "9", NoBody, TRUE>>}
    \cup {<<"destroy", pk, NoBody, FALSE>> : pk \in {"1", "9"}}
    \cup {<<"mark_all_paid", pk, NoBody, FALSE>> : pk \in {"1", "9", "x"}}

NextFail == NextOver(LiveReads, FailMuts)

SpecFail == Init /\ [][NextFail]_vars

(***************************************************************************)
(* Properties                                                              *)
(***************************************************************************)
Success == {200, 201, 204}
IsRead(c) == reqs[c].op \in ReadOps
IsMutation(c) == reqs[c].op \in MutOps
Done(c) == reqs[c].pc = "done"

\* a response computed on a miss, from the moment the view has computed it
Fresh(c) ==
    /\ IsRead(c)
    /\ ~reqs[c].hit
    /\ reqs[c].pc = "set" \/ (Done(c) /\ reqs[c].status = 200)

\* what the view of key k computes on the store as it is now
Recompute(k) ==
    IF k[2] = "retrieve" THEN ViewData(k[2], <<>>, k[3][2])
    ELSE ViewData(k[2], k[3][2], "")

Stale(k) == cache[k].data # Recompute(k).data

\* C1 as stated: no read that begins after a mutation has returned success is
\* answered from an entry that was cached before that mutation began.
C1_NoHitOnPreMutationEntry ==
    \A c \in Clients : (Done(c) /\ reqs[c].hit) => ~reqs[c].staleHit

\* C1 amended: once a mutation whose namespace delete succeeded has returned, no
\* entry cached before that mutation began is left in the cache, so no read is
\* answered from one: a read of such a key misses and runs the view.
C1_NoHitOnClearedEntry ==
    /\ \A k \in DOMAIN cache : cache[k].stamp >= lastCleared
    /\ \A c \in Clients : (Done(c) /\ reqs[c].hit) => ~reqs[c].preClearHit
    /\ \A c \in Clients :
          (IsRead(c) /\ reqs[c].wasEvicted) =>
              (~reqs[c].hit /\ (Done(c) => reqs[c].status # 200 \/ Fresh(c)))

\* a read of a key that a successful clear had removed has missed and returned
\* what the view computes from the store
C1_Witness ==
    \E c \in Clients :
        /\ Fresh(c) /\ Done(c) /\ reqs[c].wasEvicted
        /\ lastCleared > 0
        /\ reqs[c].data = ViewData(reqs[c].op, reqs[c].q, reqs[c].pk).data

ClearEvent == "clear:rksuppliers:invoice:*"

\* C2: a mutation that has returned success has made exactly one record-store
\* write and then one request to delete the whole namespace, in that order; a
\* mutation that has written and not yet returned is on its way to the clear.
C2_ClearAfterWriteBeforeResponse ==
    \A c \in Clients :
        IsMutation(c) =>
            /\ (Done(c) /\ reqs[c].status \in Success)
                  => reqs[c].trace = <<"write", ClearEvent>>
            /\ (~Done(c) /\ reqs[c].trace # <<>>)
                  => (reqs[c].pc = "clear" /\ reqs[c].trace = <<"write">>)

\* each of the five mutations has returned success
C2_Witness ==
    \E c \in Clients :
        /\ IsMutation(c) /\ Done(c) /\ reqs[c].status \in Success
        /\ reqs[c].op = "update" /\ reqs[c].partial

\* C3 as stated: no read request fails; with a cache get or set raising the
\* caller still gets the computed result.  (In Spec only retrieve of a missing
\* invoice has another way to end without 200, with 404.)
C3_ReadsFailOpen ==
    \A c \in Clients : (IsRead(c) /\ Done(c)) => reqs[c].status \in {200, 404}

\* C4: the step in which clear_cache's delete fails changes neither the record
\* store nor the cache, and the mutation returns the success response its write
\* had prepared.
C4_ClearFailureIsNotFatal ==
    [][\A c \in Clients :
          (reqs[c].pc = "clear" /\ reqs'[c].pc = "done" /\ ~reqs'[c].clearOk) =>
              /\ persons' = persons /\ invoices' = invoices /\ items' = items
              /\ cache' = cache
              /\ reqs'[c].status = reqs[c].status
              /\ reqs'[c].status \in Success
              /\ reqs'[c].data = reqs[c].data]_vars

\* a mutation has returned success although its delete failed, with a stale
\* entry still in the cache
C4_Witness ==
    \E c \in Clients :
        /\ IsMutation(c) /\ Done(c) /\ ~reqs[c].clearOk
        /\ reqs[c].trace = <<"write", ClearEvent>>
        /\ reqs[c].status \in Success
        /\ \E k \in DOMAIN cache : Stale(k)

\* no mutation is under way and none can begin
MutationsStopped ==
    /\ nMuts = MaxMutations
    /\ \A c \in Clients : IsMutation(c) => Done(c)

NoStaleEntry == \A k \in DOMAIN cache : ~Stale(k)

\* C5: every entry carries a finite timeout, and once mutations have stopped a
\* cache holding a stale entry comes to hold none.
C5_BoundedStaleness ==
    /\ [](\A k \in DOMAIN cache : cache[k].timeout \in {300, 600})
    /\ (MutationsStopped /\ ~NoStaleEntry) ~> NoStaleEntry

\* a failed delete has left a stale entry behind and the mutations have stopped
C5_Witness ==
    /\ MutationsStopped
    /\ lastDone > lastCleared
    /\ \E k \in DOMAIN cache : Stale(k) /\ cache[k].stamp < lastDone

\* C6: the race is reachable (C6_Witness), and what it leaves behind is served:
\* a get that finds an entry answers with the entry's data, whatever the store
\* holds by then, and an entry leaves the cache only in a step that expires it or
\* in a successful namespace delete.
C6_StaleEntryServedUntilEvicted ==
    [][/\ \A c \in Clients :
            (reqs[c].pc = "get" /\ reqs[c].key \in DOMAIN cache /\ reqs'[c].pc = "done"
             /\ reqs'[c].status = 200)
                => reqs'[c].data = cache[reqs[c].key].data
       /\ \A k \in DOMAIN cache :
            k \notin DOMAIN cache' =>
                \/ reqs' = reqs /\ DOMAIN cache' = DOMAIN cache \ {k}
                \/ \E c \in Clients : reqs[c].pc = "clear" /\ reqs'[c].clearOk]_vars

\* the race has happened: one read missed, queried the store before the mutation
\* wrote and stored its result after the mutation's delete; the mutation has
\* returned, and a read begun after that was answered from the entry, which
\* differs from what the store gives
C6_Witness ==
    \E r1, r2 \in Clients :
        /\ r1 # r2
        /\ Fresh(r1) /\ Done(r1)
        /\ Done(r2) /\ reqs[r2].hit /\ reqs[r2].key = reqs[r1].key
        /\ reqs[r2].sawDone > 0
        /\ lastCleared > 0
        /\ reqs[r2].data = reqs[r1].data
        /\ reqs[r2].key \in DOMAIN cache
        /\ cache[reqs[r2].key].data = reqs[r1].data
        /\ Stale(reqs[r2].key)

\* the query string without its pagination parameters
Filters(q) ==
    LET d == Dict(q) IN [k \in DOMAIN d \ {"skip", "take"} |-> d[k]]

\* the totals of a list / purchase / sell response
Totals(op, data) ==
    IF op = "list" THEN <<data.total_purchase, data.total_sell>>
    ELSE <<data.total_amount, data.total_pending, data.count>>

Paged == {"list", "purchase", "sell"}

\* C7: the totals of a freshly computed list / purchase / sell response are
\* those the view computes for the same filters under every other skip and take.
C7_TotalsIndependentOfPage ==
    \A c \in Clients :
        (Fresh(c) /\ reqs[c].op \in Paged) =>
            \A q2 \in QueryStrings :
                Filters(q2) = Filters(reqs[c].q) =>
                    LET r2 == ViewData(reqs[c].op, q2, "")
                    IN  /\ r2.status = 200
                        /\ Totals(reqs[c].op, r2.data) = Totals(reqs[c].op, reqs[c].data)

\* a purchase / sell response whose page is shorter than its filtered set
C7_Witness ==
    \E c \in Clients :
        /\ Fresh(c) /\ reqs[c].op \in {"purchase", "sell"}
        /\ reqs[c].data.count = 2
        /\ Len(reqs[c].data.results) = 1
        /\ reqs[c].data.total_amount = 800

\* C8 as stated: list's total_purchase is the sum of amount over the purchase
\* invoices of its set and total_sell the sum over the sale invoices.
C8_ListTotalsByType ==
    \A c \in Clients :
        (Fresh(c) /\ reqs[c].op = "list") =>
            /\ reqs[c].data.total_purchase =
                  SumAmount({i \in ListQueryset : invoices[i].invoice_type = "purchase"})
            /\ reqs[c].data.total_sell =
                  SumAmount({i \in ListQueryset : invoices[i].invoice_type = "sale"})

\* C9 as stated: total_amount sums the filtered set, total_pending its unpaid
\* invoices, count is its size, and total_pending <= total_amount.
C9_ScopedTotals ==
    \A c \in Clients :
        (Fresh(c) /\ reqs[c].op \in {"purchase", "sell"}) =>
            LET qs == ScopedQueryset(IF reqs[c].op = "sell" THEN "sale" ELSE "purchase",
                                     Dict(reqs[c].q))
            IN  /\ reqs[c].data.total_amount = SumAmount(qs)
                /\ reqs[c].data.total_pending =
                      SumAmount({i \in qs : ~invoices[i].is_paid})
                /\ reqs[c].data.count = Cardinality(qs)
                /\ reqs[c].data.total_pending <= reqs[c].data.total_amount

\* the rows of person p in a list / purchase / sell response are all paid
ShowsPaid(data, p) ==
    \A n \in DOMAIN data.results :
        data.results[n].person.id = p => data.results[n].is_paid

\* the step in which mark_all_paid for person p writes: exactly p's unpaid
\* invoices become paid, nothing else changes, and n counts them
MarkStep(c) ==
    LET p == reqs[c].inst.person IN
    /\ DOMAIN invoices' = DOMAIN invoices
    /\ \A i \in DOMAIN invoices :
          invoices'[i] = IF invoices[i].person = p
                         THEN [invoices[i] EXCEPT !.is_paid = TRUE]
                         ELSE invoices[i]
    /\ persons' = persons /\ items' = items
    /\ reqs'[c].data.updated =
          Cardinality({i \in DOMAIN invoices :
                          invoices[i].person = p /\ ~invoices[i].is_paid})

\* C10 as stated, its last part: a list / purchase / sell request that begins
\* once mark_all_paid for P has returned, with no other mutation since, shows
\* every invoice of P as paid.
C10_FollowingQueryShowsPaid ==
    \A c \in Clients :
        (IsRead(c) /\ reqs[c].op \in Paged /\ Done(c) /\ reqs[c].status = 200
         /\ reqs[c].afterMark # 0)
            => ShowsPaid(reqs[c].data, reqs[c].afterMark)

\* C10 amended: the write is as stated, and a list / purchase / sell response
\* computed from the store while mark_all_paid for P is the latest write shows
\* every invoice of P as paid.
C10_MarkAllPaid ==
    /\ [][\A c \in Clients :
             (reqs[c].op = "mark_all_paid" /\ reqs[c].pc = "save"
              /\ reqs'[c].pc = "clear") => MarkStep(c)]_vars
    /\ [](\A c \in Clients :
             (Fresh(c) /\ reqs[c].op \in Paged /\ reqs[c].qMarked # 0)
                 => ShowsPaid(reqs[c].data, reqs[c].qMarked))

\* mark_all_paid for Acme has paid both of Acme's invoices and left Bolt's
\* unpaid one; a list cached before was cleared and, read again, shows them paid
C10_Witness ==
    \E c, m \in Clients :
        /\ reqs[m].op = "mark_all_paid" /\ Done(m) /\ reqs[m].data = [updated |-> 2]
        /\ reqs[m].clearOk
        /\ \E i \in DOMAIN invoices : ~invoices[i].is_paid
        /\ Fresh(c) /\ Done(c) /\ reqs[c].op = "list" /\ reqs[c].wasEvicted
        /\ reqs[c].qMarked = 1
        /\ \E n \in DOMAIN reqs[c].data.results : reqs[c].data.results[n].person.id = 1

\* two query strings carrying the same name/value pairs, each name once
SamePairs(q1, q2) ==
    /\ Len(q1) = Len(q2)
    /\ {q1[i] : i \in DOMAIN q1} = {q2[i] : i \in DOMAIN q2}
    /\ Cardinality({q1[i][1] : i \in DOMAIN q1}) = Len(q1)

\* C11: two requests for one operation whose query strings carry the same
\* name/value pairs, in whatever order, derive the same cache key, so the second
\* is answered from the entry the first stored.
C11_KeyDeterminism ==
    (IsRead("c1") /\ IsRead("c2") /\ reqs["c1"].op = reqs["c2"].op
     /\ SamePairs(reqs["c1"].q, reqs["c2"].q)) =>
        /\ reqs["c1"].key = reqs["c2"].key
        /\ Done("c2") => (reqs["c2"].hit /\ reqs["c2"].data = reqs["c1"].data)

\* the second request gave its parameters in another order and was a hit
C11_Witness ==
    /\ Done("c1") /\ Done("c2")
    /\ reqs["c1"].op = reqs["c2"].op
    /\ reqs["c1"].q # reqs["c2"].q
    /\ Len(reqs["c1"].q) = 2
    /\ SamePairs(reqs["c1"].q, reqs["c2"].q)
    /\ reqs["c2"].hit

\* the filters the views read from the query string
Recognized == {"month", "year", "search", "person_id", "date_from", "date_to",
               "is_paid", "skip", "take"}

\* the recognized filters whose values differ between two query strings
Differing(q1, q2) == {n \in Recognized : Get(Dict(q1), n) # Get(Dict(q2), n)}

\* C12: two requests for one operation that differ in the value of a recognized
\* filter derive different keys, and a request answered from the cache gets the
\* response the view computes for its own parameters.
C12_KeySensitivity ==
    /\ (IsRead("c1") /\ IsRead("c2") /\ reqs["c1"].op = reqs["c2"].op
         /\ Differing(reqs["c1"].q, reqs["c2"].q) # {})
            => reqs["c1"].key # reqs["c2"].key
    /\ \A c \in Clients :
          (IsRead(c) /\ Done(c) /\ reqs[c].hit) =>
              reqs[c].data = ViewData(reqs[c].op, reqs[c].q, reqs[c].pk).data

\* the second request differs from the first in its month alone; it missed and
\* got another result
C12_Witness ==
    /\ Done("c1") /\ Done("c2")
    /\ reqs["c1"].op = reqs["c2"].op
    /\ Differing(reqs["c1"].q, reqs["c2"].q) = {"month"}
    /\ DOMAIN Dict(reqs["c1"].q) = DOMAIN Dict(reqs["c2"].q)
    /\ ~reqs["c2"].hit
    /\ reqs["c2"].data # reqs["c1"].data
    /\ Cardinality(DOMAIN cache) = 2

\* the recognized filters of a query string, with their values
RecognizedOf(q) ==
    LET d == Dict(q) IN [n \in DOMAIN d \cap Recognized |-> d[n]]

\* C13 as stated: two requests for one operation whose query strings agree on
\* every recognized filter derive the same key, and the second is answered from
\* the entry the first stored.
C13_KeyInsensitivity ==
    (IsRead("c1") /\ IsRead("c2") /\ reqs["c1"].op = reqs["c2"].op
     /\ RecognizedOf(reqs["c1"].q) = RecognizedOf(reqs["c2"].q)) =>
        /\ reqs["c1"].key = reqs["c2"].key
        /\ Done("c2") => reqs["c2"].hit

\* C14 as stated: a paginated read takes at most 1000 records for its page,
\* whatever take the request names, and returns at most 1000.
C14_TakeAtMost1000 ==
    \A c \in Clients :
        (Fresh(c) /\ reqs[c].op \in Paged) =>
            /\ PageWindow(Dict(reqs[c].q)).take <= 1000
            /\ Len(reqs[c].data.results) <= 1000

\* the year / date_from / date_to parameters of a query string whose values do
\* not parse
Malformed(q) ==
    LET d == Dict(q)
    IN  {n \in {"year"} : Truthy(Get(d, n)) /\ ~IsInt(Get(d, n))}
        \cup {n \in {"date_from", "date_to"} : Truthy(Get(d, n)) /\ ~IsDate(Get(d, n))}

\* the query string without the parameters named
Without(q, names) == SelectSeq(q, LAMBDA p : p[1] \notin names)

\* a response without its echo of the month / year / search it was given
Figures(op, data) ==
    IF op \in {"purchase", "sell"}
    THEN <<data.total_amount, data.total_pending, data.count, data.results>>
    ELSE <<data>>

\* C15 as stated: a purchase / sell / dashboard request with a malformed year,
\* date_from or date_to succeeds with the result of the same request without
\* that parameter.
C15_MalformedIgnored ==
    \A c \in Clients :
        (IsRead(c) /\ Done(c) /\ ~reqs[c].hit
         /\ reqs[c].op \in {"purchase", "sell", "dashboard"}
         /\ Malformed(reqs[c].q) # {}) =>
            /\ reqs[c].status = 200
            /\ Figures(reqs[c].op, reqs[c].data) =
                  Figures(reqs[c].op,
                          ViewData(reqs[c].op,
                                   Without(reqs[c].q, Malformed(reqs[c].q)), "").data)

\* a month value that is neither one of the twelve names nor a number 1..12
InvalidMonth(q) ==
    LET m == Get(Dict(q), "month")
    IN  /\ Truthy(m)
        /\ m \notin {MONTH_NAMES[i] : i \in DOMAIN MONTH_NAMES}
        /\ ~(IsInt(m) /\ ToInt(m) \in 1..12)

\* C16: a list / purchase / sell / dashboard request with an invalid month
\* succeeds with the totals, count and records of the same request without the
\* month parameter.
C16_InvalidMonthIgnored ==
    \A c \in Clients :
        (IsRead(c) /\ Done(c) /\ ~reqs[c].hit /\ InvalidMonth(reqs[c].q)
         /\ Malformed(reqs[c].q) = {}) =>
            /\ reqs[c].status = 200
            /\ Figures(reqs[c].op, reqs[c].data) =
                  Figures(reqs[c].op,
                          ViewData(reqs[c].op, Without(reqs[c].q, {"month"}), "").data)

\* sell with month=13 and year=2024 has returned both sales of 2024, the one of
\* March and the one of April
C16_Witness ==
    \E c \in Clients :
        /\ Fresh(c) /\ Done(c) /\ reqs[c].op = "sell"
        /\ Dict(reqs[c].q) = [month |-> "13", year |-> "2024"]
        /\ reqs[c].data.count = 2
        /\ {reqs[c].data.results[n].date[2] : n \in DOMAIN reqs[c].data.results} = {3, 4}

Summing == {"list", "purchase", "sell", "dashboard"}

\* the sum fields of a response
SumFields(op, data) ==
    CASE op = "list"                 -> {data.total_purchase, data.total_sell}
      [] op \in {"purchase", "sell"} -> {data.total_amount, data.total_pending}
      [] op = "dashboard"            -> {data.total_purchase, data.total_sales}

\* the set of invoices a view aggregates over
FilteredSet(op, q) ==
    CASE op = "list"      -> ListQueryset
      [] op = "purchase"  -> ScopedQueryset("purchase", Dict(q))
      [] op = "sell"      -> ScopedQueryset("sale", Dict(q))
      [] op = "dashboard" -> {i \in DOMAIN invoices : MonthYearSearch(i, Dict(q))}

\* C17: a list / purchase / sell / dashboard request whose filters select no
\* invoice succeeds with every sum field 0, and no computed response carries a
\* sum that is null.
C17_EmptySumsAreZero ==
    \A c \in Clients :
        /\ (IsRead(c) /\ Done(c) /\ ~reqs[c].hit /\ reqs[c].op \in Summing
             /\ ~FilterRaises(Dict(reqs[c].q))
             /\ FilteredSet(reqs[c].op, reqs[c].q) = {}) =>
                /\ reqs[c].status = 200
                /\ SumFields(reqs[c].op, reqs[c].data) = {0}
        /\ (Fresh(c) /\ reqs[c].op \in Summing) =>
                SumFields(reqs[c].op, reqs[c].data) \subseteq Nat

\* sell with year=2023 on a store that holds sales, none of 2023: no record, no
\* count, and both sums 0
C17_Witness ==
    \E c \in Clients :
        /\ Fresh(c) /\ Done(c) /\ reqs[c].op = "sell"
        /\ Dict(reqs[c].q) = [year |-> "2023"]
        /\ \E i \in DOMAIN invoices : invoices[i].invoice_type = "sale"
        /\ reqs[c].data.count = 0
        /\ reqs[c].data.results = <<>>
        /\ reqs[c].data.total_amount = 0 /\ reqs[c].data.total_pending = 0

\* the unpaid invoices of a set, and their (person, invoice_type) groups
Unpaid(qs) == {i \in qs : ~invoices[i].is_paid}
Group(qs, g) ==
    {i \in Unpaid(qs) : invoices[i].person = g[1] /\ invoices[i].invoice_type = g[2]}
Groups(qs) == {<<invoices[i].person, invoices[i].invoice_type>> : i \in Unpaid(qs)}

\* C18 as stated: the dashboard's pending breakdown has one row for each
\* (person, invoice_type) group of unpaid invoices of its filtered set, with the
\* group's count and summed amount, the rows in descending order of the sum.
C18_PendingGrouped ==
    \A c \in Clients :
        (Fresh(c) /\ reqs[c].op = "dashboard") =>
            LET qs   == FilteredSet("dashboard", reqs[c].q)
                rows == reqs[c].data.pending
            IN  /\ Len(rows) = Cardinality(Groups(qs))
                /\ \A g \in Groups(qs) : \E n \in DOMAIN rows :
                      /\ rows[n].person__name = persons[g[1]].name
                      /\ rows[n].invoice_type = g[2]
                      /\ rows[n].invoice_count = Cardinality(Group(qs, g))
                      /\ rows[n].total_amount = SumAmount(Group(qs, g))
                /\ \A m, n \in DOMAIN rows :
                      m < n => rows[m].total_amount >= rows[n].total_amount

\* the step of client c that stores an entry: a read that missed, storing under
\* its key the response it computed, which it returns
SetStep(c) ==
    /\ IsRead(c) /\ reqs[c].pc = "set" /\ ~reqs[c].hit
    /\ reqs'[c].pc = "done" /\ reqs'[c].status = 200
    /\ reqs'[c].data = reqs[c].data
    /\ cache'[reqs[c].key].data = reqs[c].data

\* C19: an entry appears or changes only in the step of a read that missed and
\* holds the response that read computed and returns; a hit returns the stored
\* value and leaves the cache and the record store as they are; an entry goes
\* only by its expiry or in a successful namespace delete, and that delete
\* leaves no entry of any operation.
C19_EntryLifecycle ==
    [][/\ \A k \in DOMAIN cache' :
            (k \notin DOMAIN cache \/ cache'[k] # cache[k]) =>
                \E c \in Clients : reqs[c].key = k /\ SetStep(c)
       /\ \A c \in Clients :
            (reqs[c].pc = "get" /\ reqs'[c].pc = "done" /\ reqs'[c].hit) =>
                /\ reqs[c].key \in DOMAIN cache
                /\ reqs'[c].data = cache[reqs[c].key].data
                /\ cache' = cache
                /\ persons' = persons /\ invoices' = invoices /\ items' = items
       /\ \A k \in DOMAIN cache :
            k \notin DOMAIN cache' =>
                \/ /\ reqs' = reqs /\ DOMAIN cache' = DOMAIN cache \ {k}
                   /\ cache[k].timeout \in {300, 600}
                \/ \E c \in Clients :
                      /\ IsMutation(c) /\ reqs[c].pc = "clear" /\ reqs'[c].clearOk
                      /\ cache' = <<>>
       /\ \A c \in Clients :
            (reqs[c].pc = "clear" /\ reqs'[c].pc = "done" /\ reqs'[c].clearOk) =>
                cache' = <<>>]_vars

\* a read has been answered from an entry an earlier read had stored, and a
\* mutation's successful delete has since removed that entry and left the cache
\* empty
C19_Witness ==
    \E b, m \in Clients :
        /\ IsRead(b) /\ Done(b) /\ reqs[b].hit /\ reqs[b].status = 200
        /\ reqs[b].key \in evicted
        /\ IsMutation(m) /\ Done(m) /\ reqs[m].clearOk
        /\ cache = <<>>

\* C20 as stated: no two Person rows carry the same name and role.
C20_UniquePersons ==
    \A p1, p2 \in DOMAIN persons :
        (persons[p1].name = persons[p2].name /\ persons[p1].role = persons[p2].role)
            => p1 = p2

\* a mutation that has returned without success
Failed(c) == IsMutation(c) /\ Done(c) /\ reqs[c].status \notin Success

====
